---- MODULE Spec2Model ----
(***************************************************************************)
(* Model of the nearest-imagery resolution code of app.py:                 *)
(*   geocode_nominatim    (geocoding with bounded retry)                   *)
(*   mapillary_find_best  (direct query, then expanding bounding boxes)    *)
(*   rank_items           (ordering of the candidate records)              *)
(* One invocation of one of the two functions runs per behaviour; the      *)
(* providers' answers are chosen nondeterministically at each request.     *)
(***************************************************************************)
EXTENDS Integers, Sequences, FiniteSets, TLC

\* ------------------------------------------------------------------ bounds
MaxItems == 2      \* longest result set a provider returns
MaxRadii == 2      \* longest radii sequence passed to mapillary_find_best
MaxRetries == 3    \* largest retry count passed to geocode_nominatim
MaxPoint == 2      \* largest longitude of a candidate's coordinates
MaxRank == 3       \* longest list handed to rank_items on its own

\* ---------------------------------------------------------------- values
NoneV == "None"                     \* Python's None where a string may stand
Inf == -1                           \* float("inf"): greater than any distance

Truthy(v) == v # NoneV /\ v # ""    \* truth value of a str-or-None

PyOr(a, b) == IF Truthy(a) THEN a ELSE b      \* Python's  a or b

Abs(x) == IF x < 0 THEN -x ELSE x

\* tokens are sequences of characters; NoToken stands for an absent token
NoToken == << "<None>" >>
Prefix == << "M", "L", "Y", "|" >>
GoodToken == Prefix \o << "k" >>
Tokens == { NoToken, << >>, << "M", "L", "Y" >>, << "m", "l", "y", "|", "k" >>,
            << "x" >> \o Prefix, GoodToken }

startswith(s, p) == Len(s) >= Len(p) /\ SubSeq(s, 1, Len(p)) = p

ValidTokenAnyString(tok) == tok # NoToken /\ tok # << >>

\* line 64 negated: the token is present and starts with "MLY|"
ValidToken(tok) == tok # NoToken /\ tok # << >> /\ startswith(tok, Prefix)

\* ------------------------------------------------------ candidate records
\* coordinates is [lon, lat] or absent (<< >>); dict = FALSE is an element of
\* "data" that is not a JSON object, on which it.get raises.
Coordinates == { << >> } \cup { << p, 0 >> : p \in 1..MaxPoint }
\* (thumb_1024_url, thumb_2048_url): both absent, only the large one, both
ThumbPairs == { << NoneV, NoneV >>, << NoneV, "large.jpg" >>, << "small.jpg", "large.jpg" >> }

Candidates == { [ dict |-> TRUE, is_pano |-> p, coordinates |-> c,
                  thumb_1024_url |-> t[1], thumb_2048_url |-> t[2] ] :
                p \in BOOLEAN, c \in Coordinates, t \in ThumbPairs }

BadItem == [ dict |-> FALSE, is_pano |-> FALSE, coordinates |-> << >>,
             thumb_1024_url |-> NoneV, thumb_2048_url |-> NoneV ]

Items == Candidates \cup { BadItem }

SeqsUpTo(S, n) == UNION { [1..k -> S] : k \in 0..n }

\* a provider answer: ok = FALSE is a timeout, a non-2xx status or a body
\* that is not the expected JSON; otherwise data is the list under "data"
Responses == { [ok |-> FALSE, data |-> << >>] } \cup
             { [ok |-> TRUE, data |-> d] : d \in SeqsUpTo(Items, MaxItems) }

\* origins (lat, lon) and radii of the bounding boxes
Origins == { << 0, 0 >> }
RadiusValues == { 150, 300 }
RadiiSeqs == SeqsUpTo(RadiusValues, MaxRadii)

\* ----------------------------------------------------------------- state
VARIABLES pc,            \* position of the running invocation
          lat, lon, token, radii_m, require_pano,   \* mapillary_find_best arguments
          ri,            \* index into radii_m of the next radius
          items,         \* the result set the function returned from
          queries,       \* provider requests issued by mapillary_find_best, in order
          ret,           \* return value (thumb, meta) of mapillary_find_best
          address, retries, \* geocode_nominatim arguments
          i,             \* loop variable of geocode_nominatim
          glog,          \* geocoder events, in order: answers received and sleeps
          gret,          \* return value of geocode_nominatim
          ranked_out,    \* the list rank_items returned
          apc,           \* position of the page script in the current render
          env_token, address_input, search, pano_first,   \* the page's inputs
          last_result,   \* st.session_state.last_result
          page,          \* what the render has put on the page, in order
          calls,         \* require_pano of the mapillary_find_best calls of the render
          first_ret,     \* what the first of these calls returned
          last_good      \* result of the latest geocoding of the session that succeeded

vars == << pc, lat, lon, token, radii_m, require_pano, ri, items, queries, ret,
           address, retries, i, glog, gret, ranked_out,
           apc, env_token, address_input, search, pano_first, last_result, page,
           calls, first_ret, last_good >>

findVars == << lat, lon, token, radii_m, require_pano, ri, items, queries, ret >>
geoVars == << address, retries, i, glog, gret >>
pageVars == << apc, env_token, address_input, search, pano_first, last_result, page,
               calls, first_ret, last_good >>

\* ----------------------------------------------------- distance utilities
\* _haversine_m on the model's grid: the distance grows with the offsets
_haversine_m(lat1, lon1, lat2, lon2) == Abs(lat2 - lat1) + Abs(lon2 - lon1)

\* _deg_for_meters: the half-extents grow with the radius (one unit per metre)
_deg_for_meters(lat_deg, meters) == << meters, meters >>

\* -------------------------------------------------------------- rank_items
DistOf(la, lo, it) ==
    IF Len(it.coordinates) = 2
    THEN _haversine_m(la, lo, it.coordinates[2], it.coordinates[1])
    ELSE Inf

DistLessNumeric(a, b) == a < b

DistLess(a, b) == IF a = Inf THEN FALSE ELSE IF b = Inf THEN TRUE ELSE a < b

\* the sort key (-int(x[0]), x[1]) compared as Python compares tuples
NegInt(b) == IF b THEN -1 ELSE 0

KeyLessDistOnly(x, y) == DistLess(x[2], y[2])

KeyLess(x, y) ==
    \/ NegInt(x[1]) < NegInt(y[1])
    \/ NegInt(x[1]) = NegInt(y[1]) /\ DistLess(x[2], y[2])

\* list.sort is stable: t goes behind every element whose key is not greater
RECURSIVE InsertSorted(_, _)
InsertSorted(t, s) ==
    IF s = << >> THEN << t >>
    ELSE IF KeyLess(t, Head(s)) THEN << t >> \o s
    ELSE << Head(s) >> \o InsertSorted(t, Tail(s))

RECURSIVE SortStable(_)
SortStable(s) ==
    IF s = << >> THEN << >>
    ELSE InsertSorted(s[Len(s)], SortStable(SubSeq(s, 1, Len(s) - 1)))

\* it.get raises on an element that is not a dict
RankRaises(its) == \E k \in 1..Len(its) : ~its[k].dict

rank_items(la, lo, its) ==
    SortStable([ k \in 1..Len(its) |-> << its[k].is_pano, DistOf(la, lo, its[k]), its[k] >> ])

\* ------------------------------------------------------ mapillary_find_best
Empty == [ thumb |-> NoneV, meta |-> << >> ]       \* return None, None

\* return it.get("thumb_1024_url") or it.get("thumb_2048_url"), it
Outcome(it) == [ thumb |-> PyOr(it.thumb_1024_url, it.thumb_2048_url), meta |-> << it >> ]

Panos(ranked) == SelectSeq(ranked, LAMBDA t : t[1])

\* the selection of lines 89-97 and 113-121 on a non-empty, rankable result set
SelectFallback(ranked, req) ==
    IF req /\ Panos(ranked) # << >>
    THEN [ kind |-> "return", out |-> Outcome(Panos(ranked)[1][3]) ]
    ELSE [ kind |-> "return", out |-> Outcome(ranked[1][3]) ]

SelectLast(ranked, req) ==
    IF req
    THEN IF Panos(ranked) # << >>
         THEN [ kind |-> "return", out |-> Outcome(Panos(ranked)[1][3]) ]
         ELSE [ kind |-> "fall", out |-> Empty ]
    ELSE [ kind |-> "return", out |-> Outcome(ranked[Len(ranked)][3]) ]

Select(ranked, req) ==
    IF req
    THEN IF Panos(ranked) # << >>
         THEN [ kind |-> "return", out |-> Outcome(Panos(ranked)[1][3]) ]
         ELSE [ kind |-> "fall", out |-> Empty ]
    ELSE [ kind |-> "return", out |-> Outcome(ranked[1][3]) ]

\* the body of the try blocks (lines 82-97, 105-121) once the answer is in:
\* it returns, falls out (no items, no panorama) or raises
TryBody(resp, la, lo, req) ==
    IF ~resp.ok THEN [ kind |-> "raise", out |-> Empty ]
    ELSE IF resp.data = << >> THEN [ kind |-> "fall", out |-> Empty ]
    ELSE IF RankRaises(resp.data) THEN [ kind |-> "raise", out |-> Empty ]
    ELSE Select(rank_items(la, lo, resp.data), req)

ExceptNothing(o) == o

ExceptReturnEmpty(o) == IF o.kind = "raise" THEN [ o EXCEPT !.kind = "return" ] ELSE o

\* except Exception: pass / continue
ExceptException(o) == IF o.kind = "raise" THEN [ o EXCEPT !.kind = "fall" ] ELSE o

\* what the provider answered, as the log of requests records it
AnswerKind(resp) ==
    IF ~resp.ok THEN "error"
    ELSE IF resp.data = << >> THEN "empty"
    ELSE IF \E k \in 1..Len(resp.data) : ~resp.data[k].dict THEN "malformed"
    ELSE IF \E k \in 1..Len(resp.data) : resp.data[k].is_pano THEN "pano"
    ELSE "nopano"

\* the bounding box of line 103: lon-dlon, lat-dlat, lon+dlon, lat+dlat
Bbox(la, lo, radius) ==
    LET d == _deg_for_meters(la, radius)
    IN  << lo - d[2], la - d[1], lo + d[2], la + d[1] >>

NoBbox == << >>

\* lines 61-65: the credential check
Call(la, lo, tok, radii, req) ==
    /\ pc = "idle"
    /\ lat' = la /\ lon' = lo /\ token' = tok /\ radii_m' = radii /\ require_pano' = req
    /\ IF ValidToken(tok)
       THEN pc' = "direct" /\ ret' = ret
       ELSE pc' = "done" /\ ret' = Empty
    /\ UNCHANGED << ri, items, queries >>
    /\ UNCHANGED geoVars

\* lines 81-99: the closest-to-point query
DirectQuery(resp) ==
    /\ pc = "direct"
    /\ LET o == ExceptException(TryBody(resp, lat, lon, require_pano))
       IN  /\ queries' = Append(queries, [ mode |-> "closeto", limit |-> 20, ri |-> 0,
                                           radius |-> 0, bbox |-> NoBbox,
                                           answer |-> AnswerKind(resp) ])
           /\ IF o.kind = "return"
              THEN pc' = "done" /\ ret' = o.out /\ items' = resp.data /\ ri' = ri
              ELSE IF o.kind = "fall"
              THEN pc' = "cascade" /\ ret' = ret /\ items' = items /\ ri' = 1
              ELSE pc' = "raised" /\ ret' = ret /\ items' = items /\ ri' = ri
    /\ UNCHANGED << lat, lon, token, radii_m, require_pano >>
    /\ UNCHANGED geoVars

NextIndexSame(k) == k

\* the loop advance of line 101: the position after k
NextIndex(k) == k + 1

\* iteration in ascending order of value: the k-th smallest element of radii
RadiusAtSorted(radii, k) ==
    LET rank(j) == Cardinality({ m \in 1..Len(radii) :
                                   radii[m] < radii[j] \/ (radii[m] = radii[j] /\ m < j) })
    IN  radii[CHOOSE j \in 1..Len(radii) : rank(j) = k - 1]

\* for radius in radii_m: the element the k-th iteration visits
RadiusAt(radii, k) == radii[k]

\* lines 101-123: one iteration of the cascade
BoxQuery(resp) ==
    /\ pc = "cascade"
    /\ ri <= Len(radii_m)
    /\ LET radius == RadiusAt(radii_m, ri)
           o == ExceptException(TryBody(resp, lat, lon, require_pano))
       IN  /\ queries' = Append(queries, [ mode |-> "bbox", limit |-> 50, ri |-> ri,
                                           radius |-> radius,
                                           bbox |-> Bbox(lat, lon, radius),
                                           answer |-> AnswerKind(resp) ])
           /\ IF o.kind = "return"
              THEN pc' = "done" /\ ret' = o.out /\ items' = resp.data /\ ri' = ri
              ELSE IF o.kind = "fall"
              THEN pc' = "cascade" /\ ret' = ret /\ items' = items /\ ri' = NextIndex(ri)
              ELSE pc' = "raised" /\ ret' = ret /\ items' = items /\ ri' = ri
    /\ UNCHANGED << lat, lon, token, radii_m, require_pano >>
    /\ UNCHANGED geoVars

\* line 124: the radii are exhausted
ReturnEmpty ==
    /\ pc = "cascade"
    /\ ri > Len(radii_m)
    /\ pc' = "done"
    /\ ret' = Empty
    /\ UNCHANGED << lat, lon, token, radii_m, require_pano, ri, items, queries >>
    /\ UNCHANGED geoVars

\* -------------------------------------------------------- geocode_nominatim
\* a geocoder answer: ok = FALSE is a timeout, a non-2xx status or a body that
\* is not JSON; data holds at most one match (limit = 1). display_name = NoneV
\* is a match without that key.
LatStrings == { "48.85", "n/a" }
LonStrings == { "2.29" }
DisplayNames == { NoneV, "Tour Eiffel, Paris" }
Matches == [ lat : LatStrings, lon : LonStrings, display_name : DisplayNames ]
GeoResponses == { [ok |-> FALSE, data |-> << >>] } \cup
                { [ok |-> TRUE, data |-> d] : d \in SeqsUpTo(Matches, 1) }

Addresses == { "", "Eiffel Tower" }
RetryCounts == (-1)..MaxRetries

\* float(s): the number a numeric string denotes, in hundredths
FloatParses(s) == s \in { "48.85", "2.29" }
float(s) == IF s = "48.85" THEN 4885 ELSE 229

NoGeo == [ found |-> FALSE, lat |-> 0, lon |-> 0, label |-> NoneV ]     \* return None

\* data[0].get("display_name", address)
LabelOf(m, addr) == IF m.display_name = NoneV THEN addr ELSE m.display_name

\* the events of the geocoder's log: an answer received, a time.sleep(delay)
Answered(resp) == [ ev |-> "answer", ok |-> resp.ok, data |-> resp.data ]
Slept == [ ev |-> "sleep", ok |-> FALSE, data |-> << >> ]

\* the body of the try block (lines 31-38) once the answer is in
GeoTryBodyRetryEmpty(resp, addr) ==
    IF ~resp.ok THEN [ kind |-> "raise", out |-> NoGeo ]
    ELSE IF resp.data = << >> THEN [ kind |-> "raise", out |-> NoGeo ]
    ELSE IF ~FloatParses(resp.data[1].lat) \/ ~FloatParses(resp.data[1].lon)
    THEN [ kind |-> "raise", out |-> NoGeo ]
    ELSE [ kind |-> "return",
           out |-> [ found |-> TRUE, lat |-> float(resp.data[1].lat),
                     lon |-> float(resp.data[1].lon),
                     label |-> LabelOf(resp.data[1], addr) ] ]

GeoTryBody(resp, addr) ==
    IF ~resp.ok THEN [ kind |-> "raise", out |-> NoGeo ]
    ELSE IF resp.data = << >> THEN [ kind |-> "return", out |-> NoGeo ]
    ELSE IF ~FloatParses(resp.data[1].lat) \/ ~FloatParses(resp.data[1].lon)
    THEN [ kind |-> "raise", out |-> NoGeo ]
    ELSE [ kind |-> "return",
           out |-> [ found |-> TRUE, lat |-> float(resp.data[1].lat),
                     lon |-> float(resp.data[1].lon),
                     label |-> LabelOf(resp.data[1], addr) ] ]

LastAttemptAlways(k, n) == TRUE

\* line 40: i == retries - 1
LastAttempt(k, n) == k = n - 1

\* for i in range(retries): the loop runs its body for k
InRange(k, n) == 0 <= k /\ k < n

\* lines 22-28: the empty-address check and the entry of the loop
GeoCall(addr, n) ==
    /\ pc = "idle"
    /\ address' = addr /\ retries' = n
    /\ IF addr = "" \/ ~InRange(0, n)
       THEN pc' = "gdone" /\ gret' = NoGeo
       ELSE pc' = "gloop" /\ gret' = gret
    /\ UNCHANGED << i, glog >>
    /\ UNCHANGED findVars

\* lines 29-42: one iteration of the retry loop
GeoAttempt(resp) ==
    /\ pc = "gloop"
    /\ LET o == GeoTryBody(resp, address)
       IN  IF o.kind = "return"
           THEN /\ pc' = "gdone" /\ gret' = o.out /\ i' = i
                /\ glog' = Append(glog, Answered(resp))
           ELSE IF LastAttempt(i, retries)
           THEN /\ pc' = "gdone" /\ gret' = NoGeo /\ i' = i
                /\ glog' = Append(glog, Answered(resp))
           ELSE /\ glog' = glog \o << Answered(resp), Slept >>
                /\ i' = i + 1
                /\ IF InRange(i + 1, retries)
                   THEN pc' = "gloop" /\ gret' = gret
                   ELSE pc' = "gdone" /\ gret' = NoGeo
    /\ UNCHANGED << address, retries >>
    /\ UNCHANGED findVars

\* ------------------------------------------------------------ specification
\* nothing has been called and no page has been rendered
InitFind ==
    /\ lat = 0 /\ lon = 0 /\ token = NoToken /\ radii_m = << >> /\ require_pano = FALSE
    /\ ri = 0 /\ items = << >> /\ queries = << >> /\ ret = Empty

InitGeo ==
    /\ address = "" /\ retries = 0 /\ i = 0 /\ glog = << >> /\ gret = NoGeo

InitPage ==
    /\ apc = "off" /\ env_token = NoToken /\ address_input = "" /\ search = FALSE
    /\ pano_first = TRUE /\ last_result = NoGeo /\ page = << >> /\ calls = << >>
    /\ first_ret = Empty /\ last_good = NoGeo

Init ==
    /\ pc = "idle"
    /\ InitFind /\ InitGeo /\ InitPage
    /\ ranked_out = << >>

Next ==
    \/ /\ pc = "idle"
       /\ \E o \in Origins, tok \in Tokens, radii \in RadiiSeqs, req \in BOOLEAN :
             Call(o[1], o[2], tok, radii, req)
       /\ UNCHANGED << ranked_out, pageVars >>
    \/ /\ pc = "direct"
       /\ \E resp \in Responses : DirectQuery(resp)
       /\ UNCHANGED << ranked_out, pageVars >>
    \/ /\ pc = "cascade"
       /\ \E resp \in Responses : BoxQuery(resp)
       /\ UNCHANGED << ranked_out, pageVars >>
    \/ ReturnEmpty /\ UNCHANGED << ranked_out, pageVars >>
    \/ /\ pc = "idle"
       /\ \E addr \in Addresses, n \in RetryCounts : GeoCall(addr, n)
       /\ UNCHANGED << ranked_out, pageVars >>
    \/ /\ pc = "gloop"
       /\ \E resp \in GeoResponses : GeoAttempt(resp)
       /\ UNCHANGED << ranked_out, pageVars >>

Spec == Init /\ [][Next]_vars

\* ------------------------------------------------- rank_items on its own
\* the records handed to rank_items: the k-th has id k, any panorama flag and
\* any coordinates; the origin lies on either side of the candidates
RankCoordinates == { << >> } \cup { << p, 0 >> : p \in 1..MaxRank }
RankOrigins == { << 0, 0 >>, << 0, MaxRank + 1 >> }
RankInputs ==
    UNION { { [ k \in 1..n |-> [ id |-> k, dict |-> TRUE, is_pano |-> f[k][1],
                                 coordinates |-> f[k][2] ] ] :
              f \in [ 1..n -> BOOLEAN \X RankCoordinates ] } : n \in 0..MaxRank }

InitRank ==
    /\ pc = "rank"
    /\ \E o \in RankOrigins : lat = o[1] /\ lon = o[2]
    /\ items \in RankInputs
    /\ token = NoToken /\ radii_m = << >> /\ require_pano = FALSE
    /\ ri = 0 /\ queries = << >> /\ ret = Empty
    /\ InitGeo /\ InitPage
    /\ ranked_out = << >>

\* lines 69-79: ranked = rank_items(items)
RankItems ==
    /\ pc = "rank"
    /\ ranked_out' = rank_items(lat, lon, items)
    /\ pc' = "ranked"
    /\ UNCHANGED << lat, lon, token, radii_m, require_pano, ri, items, queries, ret >>
    /\ UNCHANGED geoVars
    /\ UNCHANGED pageVars

NextRank == RankItems

SpecRank == InitRank /\ [][NextRank]_vars

TypeOK ==
    /\ pc \in { "idle", "direct", "cascade", "done", "raised", "gloop", "gdone" }
    /\ token \in Tokens /\ radii_m \in RadiiSeqs /\ require_pano \in BOOLEAN
    /\ ri \in 0..(MaxRadii + 1)
    /\ ret.thumb \in { NoneV, "small.jpg", "large.jpg" }
    /\ Len(ret.meta) <= 1
    /\ retries \in RetryCounts /\ address \in Addresses
    /\ gret.found \in BOOLEAN

\* ------------------------------------------------------- the page script
DefaultRetries == 3
DefaultRadii == << 150, 300, 600, 1200, 3000, 6000, 10000 >>

\* what the widgets and the environment can hold
AddressInputs == { "", "  ", " Eiffel Tower " }
PageTokens == { << >>, << "M", "L", "Y" >>, GoodToken }

stripNothing(txt) == txt

\* str.strip(): the text without its leading and trailing blanks
strip(txt) ==
    CASE txt = "  " -> ""
      [] txt = " Eiffel Tower " -> "Eiffel Tower"
      [] OTHER -> txt

\* the answers of the imagery provider during a render: an error, no record,
\* one record, and two records of which the panorama is the farther one
Record(p, x, t1, t2) ==
    [ dict |-> TRUE, is_pano |-> p, coordinates |-> << x, 0 >>,
      thumb_1024_url |-> t1, thumb_2048_url |-> t2 ]

PageAnswers ==
    { [ok |-> FALSE, data |-> << >>],
      [ok |-> TRUE, data |-> << >>],
      [ok |-> TRUE, data |-> << Record(FALSE, 1, "small.jpg", "large.jpg") >>],
      [ok |-> TRUE, data |-> << Record(TRUE, 1, "small.jpg", "large.jpg") >>],
      [ok |-> TRUE, data |-> << Record(TRUE, 1, NoneV, NoneV),
                                Record(FALSE, 2, "small.jpg", "large.jpg") >>],
      [ok |-> TRUE, data |-> << Record(TRUE, 1, NoneV, "large.jpg"),
                                Record(FALSE, 2, "small.jpg", "large.jpg") >>] }

\* the frame of a function that has returned is gone
FindFrameGone ==
    /\ lat' = 0 /\ lon' = 0 /\ token' = NoToken /\ radii_m' = << >>
    /\ require_pano' = FALSE /\ ri' = 0 /\ items' = << >> /\ queries' = << >>

GeoFrameGone ==
    /\ address' = "" /\ retries' = 0 /\ i' = 0 /\ glog' = << >>

\* lines 183-199: a rerun of the script reads the environment and the widgets
Render(addr, srch, pf) ==
    /\ apc = "off" /\ pc = "idle"
    /\ address_input' = addr /\ search' = srch /\ pano_first' = pf
    /\ page' = << >> /\ calls' = << >> /\ first_ret' = Empty
    /\ apc' = IF srch THEN "search" ELSE "display"
    /\ pc' = "idle"
    /\ FindFrameGone /\ GeoFrameGone
    /\ ret' = Empty /\ gret' = NoGeo
    /\ UNCHANGED << env_token, last_result, last_good, ranked_out >>

\* lines 202-210: the checks of a search click, then the call of the geocoder
SearchClicked ==
    /\ apc = "search"
    /\ IF strip(address_input) = ""
       THEN /\ page' = Append(page, "Please enter an address.")
            /\ apc' = "off"
            /\ UNCHANGED << findVars, geoVars, pc >>
       ELSE IF ~ValidToken(env_token)
       THEN /\ page' = Append(page, "Please provide a valid Mapillary token")
            /\ apc' = "off"
            /\ UNCHANGED << findVars, geoVars, pc >>
       ELSE /\ GeoCall(strip(address_input), DefaultRetries)
            /\ apc' = "geocoding"
            /\ page' = page
    /\ UNCHANGED << env_token, address_input, search, pano_first, last_result,
                    calls, first_ret, last_good, ranked_out >>

StoreAlways(old, geo) == geo

\* lines 211-216: last_result is assigned only past the st.stop() of a miss
Store(old, geo) == IF geo.found THEN geo ELSE old

\* lines 211-216: the geocoder has returned
GeocodeReturned ==
    /\ apc = "geocoding" /\ pc = "gdone"
    /\ last_result' = Store(last_result, gret)
    /\ last_good' = IF gret.found THEN gret ELSE last_good
    /\ IF gret.found
       THEN apc' = "display" /\ page' = page
       ELSE apc' = "off" /\ page' = Append(page, "No results from geocoder.")
    /\ pc' = "idle"
    /\ GeoFrameGone
    /\ gret' = NoGeo
    /\ UNCHANGED findVars
    /\ UNCHANGED << env_token, address_input, search, pano_first, calls, first_ret,
                    ranked_out >>

\* lines 219-241: the display block up to its first call of mapillary_find_best
Display ==
    /\ apc = "display"
    /\ IF last_result.found
       THEN /\ Call(last_result.lat, last_result.lon, env_token, DefaultRadii, pano_first)
            /\ page' = page \o << last_result.label, "map" >>
            /\ calls' = Append(calls, pano_first)
            /\ apc' = "finding"
       ELSE /\ apc' = "off"
            /\ UNCHANGED << findVars, geoVars, pc, page, calls >>
    /\ UNCHANGED << env_token, address_input, search, pano_first, last_result,
                    first_ret, last_good, ranked_out >>

\* line 235: thumb and bool((meta or {}).get("is_pano"))
PanoFound(r) == Truthy(r.thumb) /\ r.meta # << >> /\ r.meta[1].is_pano

\* lines 235-241: mapillary_find_best has returned
FindReturned ==
    /\ apc = "finding" /\ pc = "done"
    /\ IF Len(calls) = 1 /\ pano_first
       THEN IF PanoFound(ret)
            THEN /\ page' = Append(page, "Panoramic image found.")
                 /\ apc' = "show"
                 /\ UNCHANGED << findVars, pc, first_ret >>
            ELSE /\ page' = Append(page, "No panoramic image nearby - showing the closest available photo.")
                 /\ apc' = "fallback"
                 /\ first_ret' = ret
                 /\ pc' = "idle"
                 /\ FindFrameGone
                 /\ ret' = ret
       ELSE /\ apc' = "show"
            /\ UNCHANGED << findVars, pc, first_ret, page >>
    /\ UNCHANGED geoVars
    /\ UNCHANGED << env_token, address_input, search, pano_first, last_result, calls,
                    last_good, ranked_out >>

\* line 239: the second call, with require_pano = False
Fallback ==
    /\ apc = "fallback"
    /\ Call(last_result.lat, last_result.lon, env_token, DefaultRadii, FALSE)
    /\ calls' = Append(calls, FALSE)
    /\ apc' = "finding"
    /\ UNCHANGED << env_token, address_input, search, pano_first, last_result, page,
                    first_ret, last_good, ranked_out >>

\* lines 243-273: the preview, the viewer of a panorama and the caption
ShowImagery ==
    /\ apc = "show"
    /\ IF ~Truthy(ret.thumb) \/ ret.meta = << >>
       THEN page' = Append(page, "No Mapillary imagery found near this point.")
       ELSE page' = page \o << PyOr(ret.meta[1].thumb_1024_url, ret.thumb) >>
                         \o (IF ret.meta[1].is_pano
                             THEN << PyOr(ret.meta[1].thumb_2048_url,
                                          PyOr(ret.meta[1].thumb_1024_url, ret.thumb)) >>
                             ELSE << >>)
                         \o << "caption" >>
    /\ apc' = "off"
    /\ pc' = "idle"
    /\ FindFrameGone
    /\ ret' = Empty
    /\ UNCHANGED geoVars
    /\ UNCHANGED << env_token, address_input, search, pano_first, last_result, calls,
                    first_ret, last_good, ranked_out >>

\* the session starts with any token in the environment and nothing stored
InitSession ==
    /\ pc = "idle"
    /\ InitFind /\ InitGeo
    /\ apc = "off" /\ env_token \in PageTokens /\ address_input = "" /\ search = FALSE
    /\ pano_first = TRUE /\ last_result = NoGeo /\ page = << >> /\ calls = << >>
    /\ first_ret = Empty /\ last_good = NoGeo
    /\ ranked_out = << >>

\* the renders of a session; between renders geocode_nominatim may also be
\* called on its own, with any address and retry count
NextPage ==
    \/ apc = "off" /\ \E addr \in AddressInputs, srch \in BOOLEAN, pf \in BOOLEAN :
                         Render(addr, srch, pf)
    \/ SearchClicked
    \/ GeocodeReturned
    \/ Display
    \/ FindReturned
    \/ Fallback
    \/ ShowImagery
    \/ /\ pc = "direct"
       /\ \E resp \in PageAnswers : DirectQuery(resp)
       /\ UNCHANGED << ranked_out, pageVars >>
    \/ /\ pc = "cascade"
       /\ \E resp \in PageAnswers : BoxQuery(resp)
       /\ UNCHANGED << ranked_out, pageVars >>
    \/ ReturnEmpty /\ UNCHANGED << ranked_out, pageVars >>
    \/ /\ pc = "idle" /\ apc = "off" /\ ~search
       /\ \E addr \in Addresses, n \in RetryCounts : GeoCall(addr, n)
       /\ UNCHANGED << ranked_out, pageVars >>
    \/ /\ pc = "gloop"
       /\ \E resp \in GeoResponses : GeoAttempt(resp)
       /\ UNCHANGED << ranked_out, pageVars >>

SpecPage == InitSession /\ [][NextPage]_vars

\* ------------------------------------------------------------------ claims
FindPcs == { "direct", "cascade", "done", "raised" }

\* the token starts with the four characters M L Y |
HasRequiredPrefix(tok) ==
    /\ Len(tok) >= 4
    /\ tok[1] = "M" /\ tok[2] = "L" /\ tok[3] = "Y" /\ tok[4] = "|"

\* the answer holds a candidate that satisfies the panorama requirement
Qualifies(answer, req) == answer = "pano" \/ (answer = "nopano" /\ ~req)

\* C1: mapillary_find_best called with a token that is absent, empty or does
\* not start with "MLY|" returns (None, None) and issues no request at all,
\* whatever the origin, the radii and require_pano.
C1_NoRequestWithoutCredential ==
    (pc \in FindPcs /\ (token = NoToken \/ token = << >> \/ ~HasRequiredPrefix(token)))
        => (pc = "done" /\ ret = Empty /\ queries = << >>)

C1_Witness ==
    /\ pc = "done" /\ token = << "x" >> \o Prefix /\ radii_m # << >>
    /\ ret = Empty /\ queries = << >>

\* C2: every return value of mapillary_find_best that is not (None, None)
\* carries a preview URL: the returned candidate never lacks both thumbnails.
C2_PreviewUrlPresent ==
    (pc = "done" /\ ret # Empty) => Truthy(ret.thumb)

\* C3: with require_pano = True every return value that is not (None, None)
\* carries a panoramic candidate taken from a result set that holds one; a
\* result set without a panorama never produces the return value.
C3_PanoramaRequired ==
    (pc = "done" /\ require_pano /\ ret # Empty)
        => /\ Len(ret.meta) = 1 /\ ret.meta[1].is_pano
           /\ \E k \in 1..Len(items) : items[k] = ret.meta[1]
           /\ queries[Len(queries)].answer = "pano"
           /\ \A p \in 1..(Len(queries) - 1) : queries[p].answer # "pano"

C3_Witness ==
    /\ pc = "done" /\ require_pano /\ ret # Empty
    /\ Len(queries) = 3
    /\ queries[1].answer = "nopano" /\ queries[2].answer = "nopano"
    /\ Len(items) = 2 /\ ~items[1].is_pano

\* the candidate of its that is first by (panorama first, then nearer, then
\* earlier in the answer)
Beats(la, lo, a, ka, b, kb) ==
    \/ a.is_pano /\ ~b.is_pano
    \/ /\ a.is_pano = b.is_pano
       /\ \/ DistLess(DistOf(la, lo, a), DistOf(la, lo, b))
          \/ ~DistLess(DistOf(la, lo, b), DistOf(la, lo, a)) /\ ka < kb

TopRanked(la, lo, its) ==
    its[CHOOSE k \in 1..Len(its) :
            \A j \in 1..Len(its) : j = k \/ Beats(la, lo, its[k], k, its[j], j)]

\* C4: with require_pano = False, a direct query answered with at least one
\* candidate ends the invocation: the top-ranked candidate of that answer is
\* returned and no bounding-box query is issued.
C4_DirectShortCircuit ==
    (pc \in FindPcs /\ ~require_pano /\ Len(queries) >= 1
       /\ queries[1].answer \in { "pano", "nopano" })
        => /\ pc = "done" /\ Len(queries) = 1
           /\ ret.meta = << TopRanked(lat, lon, items) >>
           /\ ret.thumb = IF ret.meta[1].thumb_1024_url # NoneV
                          THEN ret.meta[1].thumb_1024_url
                          ELSE ret.meta[1].thumb_2048_url

C4_Witness ==
    /\ pc = "done" /\ ~require_pano /\ Len(queries) = 1 /\ radii_m # << >>
    /\ Len(items) = 2 /\ ~items[1].is_pano /\ items[2].is_pano
    /\ ret.meta = << items[2] >>

BboxAt(p) == queries[p].mode = "bbox"

\* C5 as stated: for every radii sequence the bounding-box queries are issued
\* in ascending order of radius.
C5_AscendingRadii ==
    \A p, q \in 1..Len(queries) :
        (BboxAt(p) /\ BboxAt(q) /\ p < q) => queries[p].radius <= queries[q].radius

\* C5 as amended: the bounding-box queries are issued in the order of the
\* radii sequence (k-th query, k-th element, its box centred on the origin);
\* the return value comes from the first element, in that order, whose answer
\* holds a qualifying candidate, and no query follows a qualifying answer.
C5_SequenceOrder ==
    /\ \A p \in 1..Len(queries) :
          IF p = 1 THEN queries[p].mode = "closeto"
          ELSE /\ BboxAt(p) /\ p - 1 <= Len(radii_m)
               /\ queries[p].radius = radii_m[p - 1]
               /\ queries[p].bbox = << lon - radii_m[p - 1], lat - radii_m[p - 1],
                                       lon + radii_m[p - 1], lat + radii_m[p - 1] >>
    /\ \A p \in 1..(Len(queries) - 1) : ~Qualifies(queries[p].answer, require_pano)
    /\ (pc = "done" /\ ret # Empty)
          => /\ Qualifies(queries[Len(queries)].answer, require_pano)
             /\ \E k \in 1..Len(items) : items[k] = ret.meta[1]

C5_Witness ==
    /\ pc = "done" /\ ret # Empty
    /\ radii_m = << 300, 150 >>
    /\ Len(queries) = 3 /\ queries[2].radius = 300 /\ queries[3].radius = 150
    /\ queries[2].answer = "empty"

\* C6: a radius whose query fails is skipped: the failure never ends the
\* invocation, the cascade goes on with the next element of radii_m, no
\* element is queried twice, and an answer with a qualifying candidate is
\* returned whatever failed before it.
C6_FailedRadiusSkipped ==
    /\ pc # "raised"
    /\ \A p \in 1..Len(queries) :
          (BboxAt(p) /\ queries[p].answer \in { "error", "malformed" })
             => IF p < Len(queries)
                THEN queries[p + 1].ri = queries[p].ri + 1
                ELSE /\ pc \in { "cascade", "done" }
                     /\ ri = queries[p].ri + 1
                     /\ pc = "done" => (ri > Len(radii_m) /\ ret = Empty)
    /\ \A p, q \in 1..Len(queries) : p # q => queries[p].ri # queries[q].ri
    /\ \A p \in 1..Len(queries) :
          Qualifies(queries[p].answer, require_pano)
             => (p = Len(queries) /\ pc = "done" /\ Len(ret.meta) = 1)

C6_Witness ==
    /\ pc = "done" /\ Len(ret.meta) = 1
    /\ Len(queries) = 3
    /\ queries[2].answer = "error" /\ queries[3].mode = "bbox"
    /\ queries[3].radius = 300

\* C10: a result set made only of candidates without coordinates never
\* produces the return value of mapillary_find_best.
C10_MissingGeometryExcluded ==
    (pc = "done" /\ ret # Empty)
        => \E k \in 1..Len(items) : Len(items[k].coordinates) = 2

\* the geocoder's log, read without the code: requests issued so far, and
\* what an answer amounts to
Requests == Cardinality({ p \in 1..Len(glog) : glog[p].ev = "answer" })

IsAnswer(e) == e.ev = "answer"
IsZeroMatches(e) == e.ev = "answer" /\ e.ok /\ e.data = << >>
IsMatch(e) ==
    /\ e.ev = "answer" /\ e.ok /\ e.data # << >>
    /\ e.data[1].lat = "48.85" /\ e.data[1].lon = "2.29"
IsFailure(e) == e.ev = "answer" /\ ~IsZeroMatches(e) /\ ~IsMatch(e)

\* C7: geocode_nominatim with retry count N issues at most N requests; a
\* failed attempt is followed by a delay and another attempt exactly while
\* attempts remain; the first matching answer is returned; N failures in a
\* row return None.
C7_RetryExhaustion ==
    /\ pc # "raised"
    /\ Requests <= (IF retries > 0 THEN retries ELSE 0)
    /\ \A p \in 1..Len(glog) :
          /\ IsFailure(glog[p]) =>
                IF p < Len(glog)
                THEN /\ glog[p + 1].ev = "sleep"
                     /\ (p + 1 < Len(glog) \/ pc = "gloop")
                     /\ p + 1 < Len(glog) => IsAnswer(glog[p + 2])
                ELSE pc = "gdone" /\ gret = NoGeo /\ Requests = retries
          /\ IsMatch(glog[p]) =>
                /\ p = Len(glog) /\ pc = "gdone"
                /\ gret = [ found |-> TRUE, lat |-> 4885, lon |-> 229,
                            label |-> IF glog[p].data[1].display_name = NoneV
                                      THEN address
                                      ELSE glog[p].data[1].display_name ]
          /\ glog[p].ev = "sleep" => (p > 1 /\ IsFailure(glog[p - 1]))
    /\ (pc = "gdone" /\ gret.found) => (glog # << >> /\ IsMatch(glog[Len(glog)]))

C7_Witness ==
    /\ pc = "gdone" /\ retries = 3 /\ Requests = 3 /\ gret = NoGeo
    /\ \A p \in 1..Len(glog) : IsFailure(glog[p]) \/ glog[p].ev = "sleep"

\* C8: a well-formed answer with zero matches ends geocode_nominatim at once
\* with None: no request and no delay follows it, at whatever attempt it
\* comes.
C8_ZeroMatchesNotRetried ==
    \A p \in 1..Len(glog) :
        IsZeroMatches(glog[p]) => (p = Len(glog) /\ pc = "gdone" /\ gret = NoGeo)

C8_Witness ==
    /\ pc = "gdone" /\ retries = 3 /\ gret = NoGeo
    /\ Len(glog) = 3 /\ IsFailure(glog[1]) /\ IsZeroMatches(glog[3])

\* the number of steps an invocation can still take
StepsLeft ==
    CASE pc = "idle" -> 3 + MaxRadii + MaxRetries
      [] pc = "direct" -> 2 + Len(radii_m)
      [] pc = "cascade" -> 2 + Len(radii_m) - ri
      [] pc = "gloop" -> retries - i
      [] OTHER -> 0

Returned ==
    \/ pc = "done" /\ (ret = Empty \/ (Len(ret.meta) = 1 /\ ret.meta[1] \in Candidates))
    \/ pc = "gdone" /\ (gret = NoGeo \/ gret.found)

\* the invocation has a next step (shown for a provider that times out)
GoesOn ==
    ENABLED ( /\ \/ DirectQuery([ok |-> FALSE, data |-> << >>])
                 \/ BoxQuery([ok |-> FALSE, data |-> << >>])
                 \/ ReturnEmpty
                 \/ GeoAttempt([ok |-> FALSE, data |-> << >>])
              /\ UNCHANGED << ranked_out, pageVars >> )

\* C9: whatever the providers answer, geocode_nominatim and
\* mapillary_find_best come to an end and return a result or None / (None,
\* None), and no exception reaches the caller: every step leaves fewer steps
\* to take, never ends in an exception, and ends either in a return or in a
\* position from which the invocation goes on.
C9_AlwaysReturns ==
    [][ /\ pc' # "raised"
        /\ StepsLeft' >= 0 /\ StepsLeft' < StepsLeft
        /\ Returned' \/ GoesOn' ]_vars

C9_Witness ==
    /\ pc = "done" /\ ret # Empty /\ Len(queries) = 3
    /\ queries[1].answer = "error" /\ queries[2].answer = "malformed"

\* the distance of a record from the origin, read off its coordinates
Absent(it) == it.coordinates = << >>
Metres(it) == Abs(it.coordinates[1] - lon) + Abs(it.coordinates[2] - lat)

\* a comes before b: panorama first, then the nearer one (no coordinates is
\* farther than any distance), then the earlier one of the input
ComesBefore(a, b) ==
    \/ a.is_pano /\ ~b.is_pano
    \/ /\ a.is_pano = b.is_pano
       /\ \/ ~Absent(a) /\ Absent(b)
          \/ ~Absent(a) /\ ~Absent(b) /\ Metres(a) < Metres(b)
          \/ /\ Absent(a) = Absent(b)
             /\ Absent(a) \/ Metres(a) = Metres(b)
             /\ a.id < b.id

\* C11: rank_items returns a permutation of its input, each record with its
\* panorama flag and its distance (infinite without coordinates), ordered by
\* panorama flag descending, then distance ascending, ties in input order;
\* [non-pano at 500, pano at 800, pano at 100] comes out as third, second,
\* first.
C11_RankOrder ==
    pc = "ranked" =>
        /\ Len(ranked_out) = Len(items)
        /\ \A k \in 1..Len(items) :
              Cardinality({ p \in 1..Len(ranked_out) : ranked_out[p][3] = items[k] }) = 1
        /\ \A p \in 1..Len(ranked_out) :
              /\ ranked_out[p][1] = ranked_out[p][3].is_pano
              /\ ranked_out[p][2] = IF Absent(ranked_out[p][3]) THEN Inf
                                    ELSE Metres(ranked_out[p][3])
        /\ \A p, q \in 1..Len(ranked_out) :
              p < q => ComesBefore(ranked_out[p][3], ranked_out[q][3])
        /\ ( /\ lon = 0 /\ Len(items) = 3
             /\ ~items[1].is_pano /\ items[1].coordinates = << 2, 0 >>
             /\ items[2].is_pano /\ items[2].coordinates = << 3, 0 >>
             /\ items[3].is_pano /\ items[3].coordinates = << 1, 0 >> )
              => << ranked_out[1][3].id, ranked_out[2][3].id, ranked_out[3][3].id >>
                    = << 3, 2, 1 >>

C11_Witness ==
    /\ pc = "ranked" /\ lon = 0 /\ Len(items) = 3
    /\ ~items[1].is_pano /\ items[1].coordinates = << 2, 0 >>
    /\ items[2].is_pano /\ items[2].coordinates = << 3, 0 >>
    /\ items[3].is_pano /\ items[3].coordinates = << 1, 0 >>
    /\ ranked_out[1][3] = items[3] /\ ranked_out[3][3] = items[1]

\* C17 as stated: in the ranked list a record without coordinates comes after
\* every record with coordinates, whatever the panorama flags.
C17_AbsentSortsLast ==
    pc = "ranked" =>
        \A p, q \in 1..Len(ranked_out) :
            (Absent(ranked_out[p][3]) /\ ~Absent(ranked_out[q][3])) => q < p

\* C17 as amended: a record without coordinates comes after every record
\* with coordinates that has the same panorama flag; between records of
\* different flags the panoramic one comes first, with or without
\* coordinates.
C17_AbsentSortsLastInItsClass ==
    pc = "ranked" =>
        \A p, q \in 1..Len(ranked_out) :
            (Absent(ranked_out[p][3]) /\ ~Absent(ranked_out[q][3]))
                => IF ranked_out[p][3].is_pano = ranked_out[q][3].is_pano
                   THEN q < p
                   ELSE (p < q) = ranked_out[p][3].is_pano

C17_Witness ==
    /\ pc = "ranked" /\ Len(ranked_out) = 3
    /\ ranked_out[1][3].is_pano /\ ~Absent(ranked_out[1][3]) /\ ranked_out[1][3].id = 3
    /\ ranked_out[2][3].is_pano /\ Absent(ranked_out[2][3])
    /\ ~ranked_out[3][3].is_pano /\ ~Absent(ranked_out[3][3])

\* the record has a preview URL and meets the panorama requirement
Usable(it, req) ==
    /\ it.thumb_1024_url # NoneV \/ it.thumb_2048_url # NoneV
    /\ req => it.is_pano

\* C12: a record without thumbnails (or without geometry) does not spoil its
\* result set: when the set the return value comes from holds a record that
\* meets the panorama requirement and has a preview URL, the return value
\* has a preview URL.
C12_PartialDataKeepsSearching ==
    (pc = "done" /\ ret # Empty /\ \E k \in 1..Len(items) : Usable(items[k], require_pano))
        => ret.thumb \in { "small.jpg", "large.jpg" }

\* C14: with a valid token mapillary_find_best returns (None, None) exactly
\* when the direct query and every radius were tried and none of the answers
\* held a qualifying candidate; a failed or empty direct query goes on to the
\* cascade.
C14_EmptyIffNothingQualifies ==
    /\ (pc = "done" /\ HasRequiredPrefix(token))
          => ( ret = Empty
               <=> /\ Len(queries) = 1 + Len(radii_m)
                   /\ \A p \in 1..Len(queries) : ~Qualifies(queries[p].answer, require_pano) )
    /\ (pc \in FindPcs /\ Len(queries) = 1
          /\ queries[1].answer \in { "error", "malformed", "empty" })
          => \/ pc = "cascade" /\ ri = 1
             \/ pc = "done" /\ radii_m = << >> /\ ret = Empty

C14_Witness ==
    /\ pc = "done" /\ token = GoodToken /\ require_pano /\ ret = Empty
    /\ Len(queries) = 3
    /\ queries[1].answer = "error" /\ queries[2].answer = "empty"
    /\ queries[3].answer = "nopano"

\* the requests of an invocation so far: the closest-to-point query first,
\* then bounding-box queries for distinct elements of radii_m
WithinBudget ==
    /\ pc = "direct" => queries = << >>
    /\ (pc \in { "cascade", "done", "raised" } /\ HasRequiredPrefix(token))
          => Len(queries) >= 1
    /\ Len(queries) <= 1 + Len(radii_m)
    /\ \A p \in 1..Len(queries) :
          IF p = 1 THEN queries[p].mode = "closeto"
          ELSE queries[p].mode = "bbox" /\ queries[p].ri \in 1..Len(radii_m)
    /\ \A p, q \in 1..Len(queries) : p < q => queries[p].ri < queries[q].ri

\* C18: an invocation with a valid token issues one closest-to-point query,
\* before any bounding-box query, then at most one bounding-box query per
\* element of radii_m, one request per step; it issues at most 1 + |radii_m|
\* requests and comes to an end.
C18_RequestBudget ==
    [][ pc' \in FindPcs
          => /\ WithinBudget'
             /\ \/ queries' = queries
                \/ Len(queries') = Len(queries) + 1
                      /\ SubSeq(queries', 1, Len(queries)) = queries
             /\ StepsLeft' < StepsLeft ]_vars

C18_Witness ==
    /\ pc = "done" /\ token = GoodToken /\ Len(radii_m) = 2 /\ Len(queries) = 3
    /\ queries[2].ri = 1 /\ queries[3].ri = 2 /\ ret # Empty

\* the address box holds nothing but blanks
Blank(txt) == txt = "" \/ txt = "  "

\* C13: an empty query issues no request: geocode_nominatim called with the
\* empty address returns None without a request, and a render whose search
\* click comes with an empty or whitespace-only address, or with an invalid
\* token, stops before any geocoding or imagery request.
C13_EmptyQueryFailsFast ==
    /\ (pc \in { "gloop", "gdone" } /\ address = "")
          => (pc = "gdone" /\ gret = NoGeo /\ glog = << >>)
    /\ (search /\ (Blank(address_input) \/ ~HasRequiredPrefix(env_token)))
          => /\ apc \in { "search", "off" }
             /\ pc = "idle" /\ glog = << >> /\ queries = << >> /\ calls = << >>
             /\ apc = "off" => Len(page) = 1

C13_Witness ==
    /\ apc = "off" /\ search /\ address_input = "  " /\ env_token = GoodToken
    /\ last_result.found
    /\ page = << "Please enter an address." >>
    /\ glog = << >> /\ queries = << >> /\ calls = << >>

\* no record of the result set is nearer to the origin than the returned one
ClosestOfAnyKind(r, its) ==
    r.meta # << >> =>
        \A k \in 1..Len(its) :
            ~( ~Absent(its[k]) /\ (Absent(r.meta[1]) \/ Metres(its[k]) < Metres(r.meta[1])) )

\* C15: with panoramas preferred the render calls mapillary_find_best with
\* require_pano = True first and calls it again with require_pano = False
\* exactly when the first call gave no panoramic candidate with a preview
\* URL; without the preference it makes one call with require_pano = False;
\* the second call returns the closest image of any kind.
C15_PanoramaFallback ==
    apc = "show" =>
        IF pano_first
        THEN \/ calls = << TRUE >> /\ PanoFound(ret)
             \/ /\ calls = << TRUE, FALSE >> /\ ~PanoFound(first_ret)
                /\ ClosestOfAnyKind(ret, items)
        ELSE calls = << FALSE >>

\* C16: last_result is empty or the result of the latest search of the
\* session whose geocoding succeeded: only a successful search changes it,
\* and it then holds that search's result; a render without a search click
\* issues no geocoding request.
C16_LastResultIsLatestSuccess ==
    [][ /\ last_result' = last_good'
        /\ last_result' # last_result
              => /\ search /\ ~Blank(address_input) /\ HasRequiredPrefix(env_token)
                 /\ apc = "geocoding" /\ gret.found /\ last_result' = gret
        /\ (apc' # "off" /\ ~search')
              => (pc' \notin { "gloop", "gdone" } /\ glog' = << >>) ]_vars

C16_Witness ==
    /\ apc = "off" /\ search /\ address_input = " Eiffel Tower "
    /\ page = << "No results from geocoder." >>
    /\ last_result.found /\ last_result.label = "Tour Eiffel, Paris"

====
